---- MODULE Spec2Model ----
(***************************************************************************)
(* Model of tgf: the Node / Tree data model (tgf/core/tree.py) and the     *)
(* XML / JSON mapping (tgf/core/parser.py).                                *)
(*                                                                         *)
(* Spec    : one Node object and one Tree object under their mutation      *)
(*           operations; other Node instances appear as references.        *)
(* SpecXml : the pure conversions (parse, serialize, to_dict, json),       *)
(*           applied to inputs drawn from bounded sets.                    *)
(***************************************************************************)
EXTENDS Integers, Sequences, FiniteSets, TLC

VARIABLES
    attributes,   \* Node.attributes : dict, a function from a set of keys
    child_nodes,  \* Node.child_nodes : list of Node references
    root,         \* Node.root
    node_type,    \* Node.node_type
    roots,        \* Tree.roots : list of Node references
    call,         \* the last call: operation, arguments, raised error
    pre,          \* attributes / child_nodes / roots as they were before the last
                  \* call (before the add_attribute, when the last call is a
                  \* remove_attribute that directly follows an add_attribute of its key)
    input,        \* SpecXml: the Tree or the XML document given to the conversions
    result        \* SpecXml: what the conversions returned

vars == <<attributes, child_nodes, root, node_type, roots, call, pre, input, result>>

nodeVars == <<attributes, child_nodes, root, node_type, roots, call, pre>>
xmlVars == <<input, result>>

(***************************************************************************)
(* Bounds and value domains                                                *)
(***************************************************************************)
MaxLen == 2      \* longest child_nodes list explored
MaxRoots == 1    \* longest roots list explored

\* Python's None, kept apart from every string of Strings
None == "<None>"

Keys == {"k", "children"}
Strings == {"", "v"}
Types == {"", "T"}

\* references to Node instances, and values that are not Node instances
NodeRefs == {"n1", "n2"}
NonNodes == {"'aeraerwg'"}

isNode(v) == v \in NodeRefs

\* dict values: functions whose domain is a finite set of keys
EmptyDict == [k \in {} |-> ""]
DictsOver(K, V) == UNION {[D -> V] : D \in SUBSET K}
StrDicts == DictsOver(Keys, Strings)

\* dict.update(other): entries of other win
Update(d, other) ==
    [k \in (DOMAIN d) \cup (DOMAIN other) |->
        IF k \in DOMAIN other THEN other[k] ELSE d[k]]

\* a removal that deletes nothing
Del_keeps(d, key) == d

\* del d[key]
Del(d, key) == [k \in (DOMAIN d) \ {key} |-> d[k]]

\* argument values for an "attributes" parameter: a dict or something else
DictArg(d) == [kind |-> "dict", d |-> d]
OtherArg(kind) == [kind |-> kind, d |-> EmptyDict]
AttrArgs == {DictArg(d) : d \in StrDicts} \cup {OtherArg(k) : k \in {"list", "int", "str"}}
NoneArg == OtherArg("None")

\* argument values for a "children" / "roots" parameter
IterArg(items) == [iterable |-> TRUE, items |-> items]
NotIterable == [iterable |-> FALSE, items |-> <<>>]
BatchItems ==
    { <<>>, <<"n1">>, <<"n2", "n1">>,
      <<"'aeraerwg'">>, <<"'aeraerwg'", "n1">>, <<"n1", "'aeraerwg'">>,
      <<"n1", "'aeraerwg'", "n2">>, <<"n2", "n1", "'aeraerwg'">> }
Batches == {IterArg(s) : s \in BatchItems}

\* keyword arguments explored for **kwargs
KwArgs == {EmptyDict, [k \in {"k"} |-> "v"]}

NoCall == [op |-> "none", err |-> "ok", key |-> "", follows_add |-> FALSE]

Snapshot == [attributes |-> attributes, child_nodes |-> child_nodes, roots |-> roots]

(***************************************************************************)
(* tree.py : class Node                                                    *)
(***************************************************************************)

\* d[key] = value
SetItem(d, key, value) ==
    [k \in (DOMAIN d) \cup {key} |-> IF k = key THEN value ELSE d[k]]

\* a loop that skips the elements failing the check and goes on
ValidPrefix_skips(items) == SelectSeq(items, isNode)

\* the elements a "for child in children: add_child(child)" loop appends
\* before the first element that fails the isinstance assertion
RECURSIVE ValidPrefix(_)
ValidPrefix(items) ==
    IF items = <<>> \/ ~isNode(Head(items))
    THEN <<>>
    ELSE <<Head(items)>> \o ValidPrefix(Tail(items))

AllNodes(items) == \A i \in DOMAIN items : isNode(items[i])

\* list.remove(x): drops the first occurrence of x
RECURSIVE ListRemove(_, _)
ListRemove(list, x) ==
    IF list = <<>> THEN <<>>
    ELSE IF Head(list) = x THEN Tail(list)
    ELSE <<Head(list)>> \o ListRemove(Tail(list), x)

InList(list, x) == \E i \in DOMAIN list : list[i] = x

\* Node.add_attribute(key, value)
AddAttribute(key, value) ==
    /\ attributes' = SetItem(attributes, key, value)
    /\ call' = [NoCall EXCEPT !.op = "add_attribute", !.key = key]
    /\ pre' = Snapshot
    /\ UNCHANGED <<child_nodes, root, node_type, roots, xmlVars>>

\* Node.add_attributes(attributes={}, **kwargs)
AddAttributes(arg, kwargs) ==
    /\ IF arg.kind # "dict"
       THEN /\ call' = [NoCall EXCEPT !.op = "add_attributes", !.err = "Exception"]
            /\ UNCHANGED attributes
       ELSE /\ call' = [NoCall EXCEPT !.op = "add_attributes"]
            /\ attributes' = Update(Update(attributes, arg.d), kwargs)
    /\ pre' = Snapshot
    /\ UNCHANGED <<child_nodes, root, node_type, roots, xmlVars>>

\* Node.remove_attribute(key)
RemoveAttribute(key) ==
    LET follows == call.op = "add_attribute" /\ call.key = key
    IN  /\ IF key \notin DOMAIN attributes
           THEN /\ call' = [NoCall EXCEPT !.op = "remove_attribute", !.err = "KeyError",
                                          !.key = key]
                /\ UNCHANGED attributes
           ELSE /\ call' = [NoCall EXCEPT !.op = "remove_attribute", !.key = key,
                                          !.follows_add = follows]
                /\ attributes' = Del(attributes, key)
        /\ pre' = IF follows THEN pre ELSE Snapshot
        /\ UNCHANGED <<child_nodes, root, node_type, roots, xmlVars>>

\* Node.clear_attributes()
ClearAttributes ==
    /\ attributes' = EmptyDict
    /\ call' = [NoCall EXCEPT !.op = "clear_attributes"]
    /\ pre' = Snapshot
    /\ UNCHANGED <<child_nodes, root, node_type, roots, xmlVars>>

\* an add_child that appends before it checks
AddChild_appendsFirst(child) ==
    /\ Len(child_nodes) < MaxLen
    /\ call' = [NoCall EXCEPT !.op = "add_child",
                              !.err = IF isNode(child) THEN "ok" ELSE "AssertionError"]
    /\ child_nodes' = Append(child_nodes, child)
    /\ pre' = Snapshot
    /\ UNCHANGED <<attributes, root, node_type, roots, xmlVars>>

\* Node.add_child(child)
AddChild(child) ==
    /\ IF ~isNode(child)
       THEN /\ call' = [NoCall EXCEPT !.op = "add_child", !.err = "AssertionError"]
            /\ UNCHANGED child_nodes
       ELSE /\ Len(child_nodes) < MaxLen
            /\ call' = [NoCall EXCEPT !.op = "add_child"]
            /\ child_nodes' = Append(child_nodes, child)
    /\ pre' = Snapshot
    /\ UNCHANGED <<attributes, root, node_type, roots, xmlVars>>

\* Node.add_children(children)
AddChildren(children) ==
    /\ Len(child_nodes) + Len(ValidPrefix(children.items)) <= MaxLen
    /\ IF ~children.iterable
       THEN /\ call' = [NoCall EXCEPT !.op = "add_children", !.err = "Exception"]
            /\ UNCHANGED child_nodes
       ELSE /\ call' = [NoCall EXCEPT !.op = "add_children",
                                      !.err = IF AllNodes(children.items)
                                              THEN "ok" ELSE "AssertionError"]
            /\ child_nodes' = child_nodes \o ValidPrefix(children.items)
    /\ pre' = Snapshot
    /\ UNCHANGED <<attributes, root, node_type, roots, xmlVars>>

\* Node.remove_child(child)
RemoveChild(child) ==
    /\ IF ~isNode(child)
       THEN /\ call' = [NoCall EXCEPT !.op = "remove_child", !.err = "AssertionError"]
            /\ UNCHANGED child_nodes
       ELSE IF ~InList(child_nodes, child)
       THEN /\ call' = [NoCall EXCEPT !.op = "remove_child", !.err = "ValueError"]
            /\ UNCHANGED child_nodes
       ELSE /\ call' = [NoCall EXCEPT !.op = "remove_child"]
            /\ child_nodes' = ListRemove(child_nodes, child)
    /\ pre' = Snapshot
    /\ UNCHANGED <<attributes, root, node_type, roots, xmlVars>>

\* Node.__init__(root, attributes, children, node_type, **kwargs).
\* children is an iterable of values or something without __iter__ (None
\* included).  When the constructor raises, no object is returned and the
\* Node under test stays the one it was.
NodeInit(r, attrs, children, nt, kwargs) ==
    LET addsAttrs == attrs.kind = "dict"
        addsChildren == attrs.kind # "None" /\ children.iterable
        err == IF ~addsChildren THEN "ok"
               ELSE IF kwargs # EmptyDict THEN "TypeError"
               ELSE IF ~AllNodes(children.items) THEN "AssertionError"
               ELSE "ok"
    IN  /\ Len(ValidPrefix(children.items)) <= MaxLen
        /\ call' = [NoCall EXCEPT !.op = "Node", !.err = err]
        /\ pre' = Snapshot
        /\ IF err = "ok"
           THEN /\ attributes' = IF addsAttrs THEN Update(EmptyDict, attrs.d)
                                                ELSE EmptyDict
                /\ child_nodes' = IF addsChildren THEN ValidPrefix(children.items)
                                                    ELSE <<>>
                /\ root' = r
                /\ node_type' = nt
           ELSE UNCHANGED <<attributes, child_nodes, root, node_type>>
        /\ UNCHANGED <<roots, xmlVars>>

(***************************************************************************)
(* tree.py : class Tree                                                    *)
(***************************************************************************)

\* Tree.add_root(root)
AddRoot(r) ==
    /\ IF ~isNode(r)
       THEN /\ call' = [NoCall EXCEPT !.op = "add_root", !.err = "AssertionError"]
            /\ UNCHANGED roots
       ELSE /\ Len(roots) < MaxRoots
            /\ call' = [NoCall EXCEPT !.op = "add_root"]
            /\ roots' = Append(roots, r)
    /\ pre' = Snapshot
    /\ UNCHANGED <<attributes, child_nodes, root, node_type, xmlVars>>

\* Tree.add_roots(roots)
AddRoots(rs) ==
    /\ Len(roots) + Len(ValidPrefix(rs.items)) <= MaxRoots
    /\ IF ~rs.iterable
       THEN /\ call' = [NoCall EXCEPT !.op = "add_roots", !.err = "AssertionError"]
            /\ UNCHANGED roots
       ELSE /\ call' = [NoCall EXCEPT !.op = "add_roots",
                                      !.err = IF AllNodes(rs.items)
                                              THEN "ok" ELSE "AssertionError"]
            /\ roots' = roots \o ValidPrefix(rs.items)
    /\ pre' = Snapshot
    /\ UNCHANGED <<attributes, child_nodes, root, node_type, xmlVars>>

\* Tree.__init__(roots=None): rs.kind is "None", "list" (an iterable of
\* values) or "single" (one value without __iter__).  When the constructor
\* raises, no Tree is returned and the Tree under test stays the one it was.
TreeInit(rs) ==
    LET err == IF AllNodes(rs.items) THEN "ok" ELSE "AssertionError"
    IN  /\ Len(ValidPrefix(rs.items)) <= MaxRoots
        /\ call' = [NoCall EXCEPT !.op = "Tree", !.err = err]
        /\ pre' = Snapshot
        /\ IF err = "ok"
           THEN roots' = ValidPrefix(rs.items)
           ELSE UNCHANGED roots
        /\ UNCHANGED <<attributes, child_nodes, root, node_type, xmlVars>>

TreeArgs ==
    {[kind |-> "None", items |-> <<>>]}
    \cup {[kind |-> "list", items |-> s] : s \in BatchItems}
    \cup {[kind |-> "single", items |-> <<v>>] : v \in NodeRefs \cup NonNodes}

\* arguments explored for the Node constructor
InitRootAndType == {<<None, "">>, <<"n1", "T">>}
InitAttrArgs == {NoneArg, OtherArg("list"), DictArg(EmptyDict), DictArg([k \in {"k"} |-> "v"])}

InitChildren == {NotIterable, IterArg(<<>>), IterArg(<<"n1">>), IterArg(<<"n2", "n1">>),
                 IterArg(<<"n1", "'aeraerwg'">>)}

(***************************************************************************)
(* Specification of the Node / Tree operations                             *)
(***************************************************************************)
Idle == [kind |-> "none"]

Init ==
    /\ attributes = EmptyDict
    /\ child_nodes = <<>>
    /\ root = None
    /\ node_type = ""
    /\ roots = <<>>
    /\ call = NoCall
    /\ pre = [attributes |-> EmptyDict, child_nodes |-> <<>>, roots |-> <<>>]
    /\ input = Idle
    /\ result = <<>>

Next ==
    \/ \E key \in Keys, value \in Strings : AddAttribute(key, value)
    \/ \E arg \in AttrArgs, kwargs \in KwArgs : AddAttributes(arg, kwargs)
    \/ \E key \in Keys : RemoveAttribute(key)
    \/ ClearAttributes
    \/ \E child \in NodeRefs \cup NonNodes : AddChild(child)
    \/ \E children \in Batches \cup {NotIterable} : AddChildren(children)
    \/ \E child \in NodeRefs \cup NonNodes : RemoveChild(child)
    \/ \E rt \in InitRootAndType, attrs \in InitAttrArgs,
          children \in InitChildren, kwargs \in KwArgs :
            NodeInit(rt[1], attrs, children, rt[2], kwargs)
    \/ \E r \in NodeRefs \cup NonNodes : AddRoot(r)
    \/ \E rs \in Batches \cup {NotIterable} : AddRoots(rs)
    \/ \E rs \in TreeArgs : TreeInit(rs)

Spec == Init /\ [][Next]_vars

(***************************************************************************)
(* Values handled by the conversions                                       *)
(*   Node value : [node_type, attributes, child_nodes]                     *)
(*   Tree value : [roots]                                                  *)
(*   element    : [tag, attrib, text, children], as xml.etree holds it;    *)
(*                the same shape, with text always a string, stands for    *)
(*                the element as written in an XML document                *)
(***************************************************************************)
MaxTreeNodes == 3   \* most Node values in an input Tree
MaxElems == 3       \* most <node> / <attribute> elements in an input document
MaxSteps == 3       \* most conversions applied in a row

Last(seq) == seq[Len(seq)]

\* iteration order of a dict's keys
KeySeq == <<"k", "children">>
InDomainOf(d) == [k \in Keys |-> k \in DOMAIN d]
DictKeys(d) == LET present == InDomainOf(d) IN SelectSeq(KeySeq, LAMBDA k : present[k])

Element(tag, attrib, text, children) ==
    [tag |-> tag, attrib |-> attrib, text |-> text, children |-> children]

\* ET.SubElement(parent, tag, ...): the parent with one more child
SubElement(parent, child) == [parent EXCEPT !.children = Append(@, child)]

\* Element.findall(tag): the direct children with that tag, in document order
findall(e, tag) ==
    LET hit == [i \in DOMAIN e.children |-> e.children[i].tag = tag]
        idx == SelectSeq([i \in DOMAIN e.children |-> i], LAMBDA i : hit[i])
    IN  [j \in DOMAIN idx |-> e.children[idx[j]]]

\* Element.find(tag): the first direct child with that tag, or None
find(e, tag) ==
    LET found == findall(e, tag)
    IN  IF found = <<>> THEN None ELSE Head(found)

\* ElementTree.write: attribute values must be strings ("cannot serialize
\* None"); an element whose text is None or "" is written empty
RECURSIVE CanWrite(_)
CanWrite(e) ==
    /\ \A a \in DOMAIN e.attrib : e.attrib[a] # None
    /\ \A i \in DOMAIN e.children : CanWrite(e.children[i])

RECURSIVE WriteElement(_)
WriteElement(e) ==
    Element(e.tag, e.attrib, IF e.text = None THEN "" ELSE e.text,
            [i \in DOMAIN e.children |-> WriteElement(e.children[i])])

Declaration == "<?xml version='1.0' encoding='UTF-8'?>"

XmlWrite(e) ==
    IF CanWrite(e)
    THEN [err |-> "ok", value |-> [declaration |-> Declaration, root |-> WriteElement(e)]]
    ELSE [err |-> "TypeError", value |-> None]

\* ET.fromstring: an element written without character content has text None
RECURSIVE XmlParse(_)
XmlParse(x) ==
    Element(x.tag, x.attrib, IF x.text = "" THEN None ELSE x.text,
            [i \in DOMAIN x.children |-> XmlParse(x.children[i])])

(***************************************************************************)
(* parser.py : XML -> Tree                                                 *)
(***************************************************************************)
NodeValue(node_type_, attributes_, child_nodes_) ==
    [node_type |-> node_type_, attributes |-> attributes_, child_nodes |-> child_nodes_]

\* _parse_node_attributes(node_etree), over the first n <attribute> children
RECURSIVE ParseAttributesUpTo(_, _)
ParseAttributesUpTo(found, n) ==
    IF n = 0 THEN EmptyDict
    ELSE SetItem(ParseAttributesUpTo(found, n - 1), found[n].attrib["name"], found[n].text)

\* a parser that keeps the first <attribute> of a name instead of the last
_parse_node_attributes_keepsFirst(node_etree) ==
    LET found == findall(node_etree, "attribute")
        rev == [i \in DOMAIN found |-> found[Len(found) + 1 - i]]
    IN  ParseAttributesUpTo(rev, Len(rev))

_parse_node_attributes(node_etree) ==
    LET found == findall(node_etree, "attribute")
    IN  ParseAttributesUpTo(found, Len(found))

\* attribute.attrib['name'] raises KeyError when the name is missing
RECURSIVE NamesGiven(_)
NamesGiven(e) ==
    /\ \A i \in DOMAIN e.children :
          e.children[i].tag = "attribute" => "name" \in DOMAIN e.children[i].attrib
    /\ \A i \in DOMAIN e.children :
          e.children[i].tag = "node" => NamesGiven(e.children[i])

\* _parse_node(node_etree)
RECURSIVE _parse_node(_)
_parse_node(node_etree) ==
    LET found == findall(node_etree, "node")
    IN  NodeValue(IF "type" \in DOMAIN node_etree.attrib
                  THEN node_etree.attrib["type"] ELSE None,
                  Update(EmptyDict, _parse_node_attributes(node_etree)),
                  [i \in DOMAIN found |-> _parse_node(found[i])])

\* _parse_tgf(tgf_etree)
_parse_tgf(tgf_etree) ==
    LET tree == find(tgf_etree, "tree")
    IN  IF findall(tgf_etree, "tree") = <<>>    \* tree is None
        THEN [err |-> "AttributeError", value |-> None]
        ELSE IF ~NamesGiven(tree) THEN [err |-> "KeyError", value |-> None]
        ELSE LET found == findall(tree, "node")
             IN  [err |-> "ok",
                  value |-> [roots |-> [i \in DOMAIN found |-> _parse_node(found[i])]]]

\* parse_string(tgf_xml_string)
parse_string(doc) == _parse_tgf(XmlParse(doc.root))

(***************************************************************************)
(* parser.py : Tree -> XML                                                 *)
(***************************************************************************)
\* _serialize_node_attributes(node_etree, node), over the first n keys
RECURSIVE SerializeAttributesUpTo(_, _, _, _)
SerializeAttributesUpTo(node_etree, node, keys, n) ==
    IF n = 0 THEN node_etree
    ELSE SubElement(SerializeAttributesUpTo(node_etree, node, keys, n - 1),
                    Element("attribute", [a \in {"name"} |-> keys[n]],
                            node.attributes[keys[n]], <<>>))

_serialize_node_attributes(node_etree, node) ==
    SerializeAttributesUpTo(node_etree, node, DictKeys(node.attributes),
                            Len(DictKeys(node.attributes)))

\* _serialize_node(parent_etree, node): the element added under the parent
RECURSIVE _serialize_node(_)
_serialize_node(node) ==
    LET node_etree == _serialize_node_attributes(
                          Element("node", [a \in {"type"} |-> node.node_type], None, <<>>),
                          node)
    IN  [node_etree EXCEPT !.children =
            @ \o [i \in DOMAIN node.child_nodes |-> _serialize_node(node.child_nodes[i])]]

\* _serialize_tree(tree)
_serialize_tree(tree) ==
    Element("tgf", [a \in {"version"} |-> "1.0"], None,
            << Element("tree", EmptyDict, None,
                       [i \in DOMAIN tree.roots |-> _serialize_node(tree.roots[i])]) >>)

\* serialize_to_string(tree)
serialize_to_string(tree) == XmlWrite(_serialize_tree(tree))

(***************************************************************************)
(* tree.py : to_dict, and parser.py : JSON                                 *)
(***************************************************************************)
\* values of the plain nested structure: a string, None or a list, tagged
\* so that any two of them can be compared
PyVal(v) == IF v = None THEN [none |-> TRUE] ELSE [str |-> v]
PyList(l) == [list |-> l]

\* Node.to_dict()
RECURSIVE Node_to_dict(_)
Node_to_dict(node) ==
    LET res_dict == [k \in DOMAIN node.attributes |-> PyVal(node.attributes[k])]
    IN  SetItem(res_dict, "children",
                PyList([i \in DOMAIN node.child_nodes |-> Node_to_dict(node.child_nodes[i])]))

\* Tree.to_dict()
Tree_to_dict(tree) ==
    [k \in {"roots"} |-> PyList([i \in DOMAIN tree.roots |-> Node_to_dict(tree.roots[i])])]

\* json.dumps(obj): the JSON text of a str / None / list / dict value
RECURSIVE JoinUpTo(_, _)
JoinUpTo(texts, n) ==
    IF n = 0 THEN ""
    ELSE IF n = 1 THEN texts[1]
    ELSE JoinUpTo(texts, n - 1) \o ", " \o texts[n]

RECURSIVE json_dumps_dict(_, _)
json_dumps_value(v, keys) ==
    IF "none" \in DOMAIN v THEN "null"
    ELSE IF "str" \in DOMAIN v THEN "\"" \o v.str \o "\""
    ELSE LET texts == [i \in DOMAIN v.list |-> json_dumps_dict(v.list[i], KeySeq)]
         IN  "[" \o JoinUpTo(texts, Len(texts)) \o "]"

json_dumps_dict(d, keys) ==
    LET present == [i \in DOMAIN keys |-> keys[i] \in DOMAIN d]
        ks == SelectSeq([i \in DOMAIN keys |-> i], LAMBDA i : present[i])
        texts == [j \in DOMAIN ks |->
                    "\"" \o keys[ks[j]] \o "\": " \o json_dumps_value(d[keys[ks[j]]], KeySeq)]
    IN  "{" \o JoinUpTo(texts, Len(texts)) \o "}"

\* serialize_json_to_string(tree)
serialize_json_to_string(tree) == json_dumps_dict(Tree_to_dict(tree), <<"roots">>)

(***************************************************************************)
(* Inputs of the conversions                                               *)
(***************************************************************************)
\* node types and attributes given to the Node values of an input Tree
InputLabels ==
    { <<"T", EmptyDict>>,
      <<"", [k \in {"k"} |-> "v"]>>,
      <<"T", [k \in {"k"} |-> ""]>>,
      <<"T", [k \in {"children"} |-> "v"]>>,
      <<"T", [k \in Keys |-> "v"]>> }

\* the lists of Node values that hold n Node values in all
RECURSIVE NodeLists(_)
NodesOfSize(n) ==
    {NodeValue(l[1], l[2], c) : l \in InputLabels, c \in NodeLists(n - 1)}

NodeLists(n) ==
    IF n = 0 THEN {<<>>}
    ELSE UNION { {<<node>> \o rest : node \in NodesOfSize(k), rest \in NodeLists(n - k)}
                 : k \in 1..n }

InputTrees == UNION { {[roots |-> r] : r \in NodeLists(n)} : n \in 0..MaxTreeNodes }

\* <attribute name="...">...</attribute> and the XML attributes of <node>
AttributeElems ==
    {Element("attribute", [a \in {"name"} |-> k], t, <<>>) : k \in Keys, t \in Strings}
NodeAttribs ==
    { EmptyDict,
      [a \in {"type"} |-> "T"],
      [a \in {"type", "root"} |-> IF a = "type" THEN "T" ELSE "true"] }

\* the lists of written elements that hold n elements in all
RECURSIVE ElemLists(_)
ElemsOfSize(n) ==
    (IF n = 1 THEN AttributeElems ELSE {})
    \cup {Element("node", a, "", c) : a \in NodeAttribs, c \in ElemLists(n - 1)}

ElemLists(n) ==
    IF n = 0 THEN {<<>>}
    ELSE UNION { {<<e>> \o rest : e \in ElemsOfSize(k), rest \in ElemLists(n - k)}
                 : k \in 1..n }

TgfVersion == [a \in {"version"} |-> "1.0"]
Metadata == Element("metadata", EmptyDict, "", <<>>)

InputDocs ==
    LET trees == UNION { {Element("tree", EmptyDict, "", c) : c \in ElemLists(n)}
                         : n \in 0..MaxElems }
    IN  {[declaration |-> "", root |-> Element("tgf", TgfVersion, "", <<t>> \o m)]
            : t \in trees, m \in {<<>>, <<Metadata>>}}
        \cup {[declaration |-> "", root |-> Element("tgf", TgfVersion, "", <<Metadata>>)]}

(***************************************************************************)
(* Specification of the conversions: result is the log of the conversions  *)
(* applied so far, each to the value the one before it returned            *)
(***************************************************************************)
Current == IF result = <<>> THEN input ELSE [kind |-> Last(result).kind, value |-> Last(result).value]

CanApply(kind) ==
    /\ Len(result) < MaxSteps
    /\ Current.kind = kind
    /\ result # <<>> => Last(result).err = "ok"

Returned(op, kind, r) == [op |-> op, kind |-> kind, err |-> r.err, value |-> r.value]

ParseString ==
    /\ CanApply("xml")
    /\ result' = Append(result, Returned("parse_string", "tree", parse_string(Current.value)))
    /\ UNCHANGED <<input, nodeVars>>

SerializeToString ==
    /\ CanApply("tree")
    /\ result' = Append(result, Returned("serialize_to_string", "xml",
                                         serialize_to_string(Current.value)))
    /\ UNCHANGED <<input, nodeVars>>

ToDict ==
    /\ CanApply("tree")
    /\ result' = Append(result, Returned("to_dict", "dict",
                                         [err |-> "ok", value |-> Tree_to_dict(Current.value)]))
    /\ UNCHANGED <<input, nodeVars>>

SerializeJsonToString ==
    /\ CanApply("tree")
    /\ result' = Append(result, Returned("serialize_json_to_string", "json",
                            [err |-> "ok", value |-> serialize_json_to_string(Current.value)]))
    /\ UNCHANGED <<input, nodeVars>>

\* serialize_json_to_file(tree, filename_or_fp): json.dump(filename_or_fp, tree)
\* encodes the sink and writes to the Tree.  An open stream is not JSON
\* serializable (TypeError); a path is a str, and writing its encoding calls
\* tree.write, which a Tree has not (AttributeError).  value is what the sink
\* holds after the call.
SerializeJsonToFile(sink) ==
    /\ CanApply("tree")
    /\ result' = Append(result, Returned("serialize_json_to_file", "json",
                            [err |-> IF sink = "fp" THEN "TypeError" ELSE "AttributeError",
                             value |-> ""]))
    /\ UNCHANGED <<input, nodeVars>>

InitXml ==
    /\ attributes = EmptyDict
    /\ child_nodes = <<>>
    /\ root = None
    /\ node_type = ""
    /\ roots = <<>>
    /\ call = NoCall
    /\ pre = [attributes |-> EmptyDict, child_nodes |-> <<>>, roots |-> <<>>]
    /\ input \in {[kind |-> "tree", value |-> t] : t \in InputTrees}
                 \cup {[kind |-> "xml", value |-> d] : d \in InputDocs}
    /\ result = <<>>

NextXml ==
    \/ ParseString
    \/ SerializeToString
    \/ ToDict
    \/ SerializeJsonToString
    \/ \E sink \in {"fp", "path"} : SerializeJsonToFile(sink)

SpecXml == InitXml /\ [][NextXml]_vars

(***************************************************************************)
(* Properties of the Node / Tree operations                                *)
(***************************************************************************)
Failed == call.err # "ok"
NodeUntouched == attributes' = attributes /\ child_nodes' = child_nodes

\* the elements of a sequence that precede its first non-Node element
BeforeFirstNonNode(items) ==
    LET bad == {i \in DOMAIN items : ~isNode(items[i])}
    IN  IF bad = {} THEN items
        ELSE SubSeq(items, 1, (CHOOSE i \in bad : \A j \in bad : i <= j) - 1)

\* C3 (as stated): add_attribute(k, v) followed by remove_attribute(k) returns
\* the node to the attribute set it had before the add_attribute, for every
\* node state, key and value.
C3_AddThenRemoveRestores ==
    (call.op = "remove_attribute" /\ call.follows_add) => attributes = pre.attributes

\* C3 (amended): when k is not a key of the node before add_attribute(k, v),
\* add_attribute(k, v) followed by remove_attribute(k) returns the node to the
\* attribute set it had before the add_attribute.
C3_AddThenRemoveRestoresFreshKey ==
    (call.op = "remove_attribute" /\ call.follows_add /\ call.key \notin DOMAIN pre.attributes)
        => attributes = pre.attributes

C3_Witness ==
    /\ call.op = "remove_attribute" /\ call.follows_add /\ call.err = "ok"
    /\ call.key \notin DOMAIN pre.attributes
    /\ pre.attributes # EmptyDict

\* C4 (as stated): add_children / add_roots / Tree(...) given a sequence that
\* contains a non-Node element fails and appends nothing: child_nodes and
\* roots are what they were before the call.
C4_BatchFullyRejected ==
    (call.op \in {"add_children", "add_roots", "Tree"} /\ Failed)
        => (child_nodes = pre.child_nodes /\ roots = pre.roots)

\* C4 (amended): add_children / add_roots given a sequence that contains a
\* non-Node element fails having appended, in order, exactly the elements that
\* precede the first non-Node element (nothing when it comes first); Tree(...)
\* given such a sequence fails and leaves the existing Tree as it was.
C4_BatchKeepsValidPrefix ==
    [][ /\ call'.op = "add_children" => \A b \in Batches :
            (~AllNodes(b.items) /\ AddChildren(b)) =>
                /\ Failed'
                /\ child_nodes' = child_nodes \o BeforeFirstNonNode(b.items)
                /\ roots' = roots
        /\ call'.op = "add_roots" => \A b \in Batches :
            (~AllNodes(b.items) /\ AddRoots(b)) =>
                /\ Failed'
                /\ roots' = roots \o BeforeFirstNonNode(b.items)
                /\ child_nodes' = child_nodes
        /\ call'.op = "Tree" => \A rs \in TreeArgs :
            (~AllNodes(rs.items) /\ TreeInit(rs)) =>
                (Failed' /\ roots' = roots /\ child_nodes' = child_nodes)
      ]_vars

C4_Witness ==
    /\ call.op = "add_children" /\ call.err = "AssertionError"
    /\ Len(child_nodes) > Len(pre.child_nodes)

\* C5: add_attributes with a non-dict argument (with or without keyword
\* arguments), add_child with a non-Node, remove_attribute with an absent key
\* and remove_child with a non-Node or with a Node that is not a child each
\* raise an error and leave attributes and child_nodes as they were.
C5_FailedSingleCallLeavesNode ==
    [][ /\ call'.op = "add_attributes" => \A arg \in AttrArgs, kwargs \in KwArgs :
            (arg.kind # "dict" /\ AddAttributes(arg, kwargs)) => (Failed' /\ NodeUntouched)
        /\ call'.op = "add_child" => \A child \in NonNodes :
            AddChild(child) => (Failed' /\ NodeUntouched)
        /\ call'.op = "remove_attribute" => \A key \in Keys :
            (key \notin DOMAIN attributes /\ RemoveAttribute(key)) => (Failed' /\ NodeUntouched)
        /\ call'.op = "remove_child" => \A child \in NodeRefs \cup NonNodes :
            ((~isNode(child) \/ ~InList(child_nodes, child)) /\ RemoveChild(child))
                => (Failed' /\ NodeUntouched)
      ]_vars

C5_Witness ==
    /\ call.op = "remove_child" /\ call.err = "ValueError"
    /\ child_nodes # <<>> /\ attributes # EmptyDict

\* C9: Node(children=cs) with an iterable cs of Nodes yields child_nodes = cs,
\* and Node(attributes=d) with a dict d yields attributes = d, whatever the
\* other optional arguments are.
C9_ConstructorTakesChildrenAndAttributes ==
    [][ call'.op = "Node" => \A rt \in InitRootAndType, attrs \in InitAttrArgs,
           children \in InitChildren, kwargs \in KwArgs :
            NodeInit(rt[1], attrs, children, rt[2], kwargs) =>
                /\ (children.iterable /\ AllNodes(children.items))
                       => (~Failed' /\ child_nodes' = children.items)
                /\ (attrs.kind = "dict" /\ (children.iterable => AllNodes(children.items)))
                       => (~Failed' /\ attributes' = attrs.d)
      ]_vars

(***************************************************************************)
(* Properties of the conversions                                           *)
(***************************************************************************)
Step(i, op) == Len(result) >= i /\ result[i].op = op
Given(kind) == input.kind = kind

\* C1: for a Tree T with at least one root, string node types and string
\* attribute keys and values, parse_string(serialize_to_string(T)) has the
\* same roots in the same order, each node with the same node_type, the same
\* attribute key/value pairs and recursively the same ordered children.
C1_XmlRoundTrip ==
    (Given("tree") /\ input.value.roots # <<>> /\ Step(1, "serialize_to_string"))
        => /\ result[1].err = "ok"
           /\ Step(2, "parse_string")
                => (result[2].err = "ok" /\ result[2].value = input.value)

\* the text of a written element, as the element tree reports it
TextOf(x) == IF x.text = "" THEN None ELSE x.text
TypeOf(x) == IF "type" \in DOMAIN x.attrib THEN x.attrib["type"] ELSE None
NodeElemsOf(x) == SelectSeq(x.children, LAMBDA c : c.tag = "node")
AttributeElemsOf(x) == SelectSeq(x.children, LAMBDA c : c.tag = "attribute")
HasTree(doc) == \E i \in DOMAIN doc.root.children : doc.root.children[i].tag = "tree"
FirstTree(doc) ==
    doc.root.children[CHOOSE i \in DOMAIN doc.root.children :
                        /\ doc.root.children[i].tag = "tree"
                        /\ \A j \in 1..(i - 1) : doc.root.children[j].tag # "tree"]

\* one attribute entry per <attribute> child, name -> text
RECURSIVE NodeIsElement(_, _)
NodeIsElement(node, x) ==
    LET as == AttributeElemsOf(x)
        ns == NodeElemsOf(x)
    IN  /\ node.node_type = TypeOf(x)
        /\ Cardinality(DOMAIN node.attributes) = Len(as)
        /\ \A i \in DOMAIN as :
              /\ as[i].attrib["name"] \in DOMAIN node.attributes
              /\ node.attributes[as[i].attrib["name"]] = TextOf(as[i])
        /\ Len(node.child_nodes) = Len(ns)
        /\ \A i \in DOMAIN ns : NodeIsElement(node.child_nodes[i], ns[i])

\* one attribute entry per name, name -> text of the last <attribute> child
\* that carries the name
RECURSIVE NodeIsElementLastWins(_, _)
NodeIsElementLastWins(node, x) ==
    LET as == AttributeElemsOf(x)
        ns == NodeElemsOf(x)
        last(name) == CHOOSE i \in DOMAIN as :
                        /\ as[i].attrib["name"] = name
                        /\ \A j \in DOMAIN as : as[j].attrib["name"] = name => j <= i
    IN  /\ node.node_type = TypeOf(x)
        /\ DOMAIN node.attributes = {as[i].attrib["name"] : i \in DOMAIN as}
        /\ \A name \in DOMAIN node.attributes :
              node.attributes[name] = TextOf(as[last(name)])
        /\ Len(node.child_nodes) = Len(ns)
        /\ \A i \in DOMAIN ns : NodeIsElementLastWins(node.child_nodes[i], ns[i])

\* C2 (as stated): parse_string on a document with a <tree> element returns a
\* Tree whose roots are the direct <node> children of <tree> in document
\* order, each Node with node_type from the type attribute, one attribute
\* entry per direct <attribute> child (name -> text) and the direct <node>
\* children as child_nodes; <metadata> and other XML attributes add nothing.
C2_ParseMirrorsDocument ==
    (Given("xml") /\ HasTree(input.value) /\ Step(1, "parse_string"))
        => LET parsed == result[1].value
               ns == NodeElemsOf(FirstTree(input.value))
           IN  /\ result[1].err = "ok"
               /\ DOMAIN parsed = {"roots"}
               /\ Len(parsed.roots) = Len(ns)
               /\ \A i \in DOMAIN ns : NodeIsElement(parsed.roots[i], ns[i])

\* C2 (amended): as C2, with one attribute entry per distinct name among the
\* direct <attribute> children, its value the text of the last child that
\* carries the name.
C2_ParseMirrorsDocumentLastWins ==
    (Given("xml") /\ HasTree(input.value) /\ Step(1, "parse_string"))
        => LET parsed == result[1].value
               ns == NodeElemsOf(FirstTree(input.value))
           IN  /\ result[1].err = "ok"
               /\ DOMAIN parsed = {"roots"}
               /\ Len(parsed.roots) = Len(ns)
               /\ \A i \in DOMAIN ns : NodeIsElementLastWins(parsed.roots[i], ns[i])

C2_Witness ==
    /\ Given("xml") /\ Step(1, "parse_string") /\ result[1].err = "ok"
    /\ Len(input.value.root.children) = 2
    /\ Len(result[1].value.roots) = 1
    /\ "root" \in DOMAIN FirstTree(input.value).children[1].attrib
    /\ result[1].value.roots[1].node_type = "T"
    /\ result[1].value.roots[1].attributes # EmptyDict
    /\ Len(result[1].value.roots[1].child_nodes) = 1

\* C6: Node.to_dict() holds every attribute key/value pair of the node at the
\* top level and a 'children' key with the ordered list of the children's
\* to_dict() results; Tree.to_dict() is {'roots': [root.to_dict(), ...]}.
RECURSIVE DictIsNode(_, _)
DictIsNode(d, node) ==
    /\ \A k \in DOMAIN node.attributes :
          k \in DOMAIN d /\ d[k] = [str |-> node.attributes[k]]
    /\ "children" \in DOMAIN d
    /\ DOMAIN d["children"] = {"list"}
    /\ Len(d["children"].list) = Len(node.child_nodes)
    /\ \A i \in DOMAIN node.child_nodes :
          DictIsNode(d["children"].list[i], node.child_nodes[i])

C6_ToDictHoldsAttributesAndChildren ==
    (Given("tree") /\ Step(1, "to_dict"))
        => LET d == result[1].value
           IN  /\ DOMAIN d = {"roots"}
               /\ DOMAIN d["roots"] = {"list"}
               /\ Len(d["roots"].list) = Len(input.value.roots)
               /\ \A i \in DOMAIN input.value.roots :
                     DictIsNode(d["roots"].list[i], input.value.roots[i])

\* C7: serialize_json_to_file(tree, stream) writes to the stream the JSON
\* encoding of tree.to_dict(), the text serialize_json_to_string(tree) returns.
C7_JsonFileWritesJsonString ==
    (Given("tree") /\ Step(1, "serialize_json_to_file"))
        => /\ result[1].err = "ok"
           /\ result[1].value = serialize_json_to_string(input.value)

\* C8: in a Tree returned by parse_string every node's attributes maps
\* strings to strings (and every child is a Node value).
RECURSIVE StringAttributes(_)
StringAttributes(node) ==
    /\ \A k \in DOMAIN node.attributes : k # None /\ node.attributes[k] # None
    /\ \A i \in DOMAIN node.child_nodes :
          /\ DOMAIN node.child_nodes[i] = {"node_type", "attributes", "child_nodes"}
          /\ StringAttributes(node.child_nodes[i])

C8_ParsedAttributesAreStrings ==
    (Given("xml") /\ Step(1, "parse_string") /\ result[1].err = "ok")
        => \A i \in DOMAIN result[1].value.roots : StringAttributes(result[1].value.roots[i])

\* C10: for a document x with a <tree> element, <node> elements without type
\* and <attribute> elements without text included,
\* serialize_to_string(parse_string(x)) succeeds and parses to a Tree equal
\* to parse_string(x).
C10_ParsedTreeSerializes ==
    (Given("xml") /\ HasTree(input.value) /\ Step(1, "parse_string")
       /\ Step(2, "serialize_to_string"))
        => /\ result[2].err = "ok"
           /\ Step(3, "parse_string")
                => (result[3].err = "ok" /\ result[3].value = result[1].value)

====
